---- MODULE Spec2Model ----
(***************************************************************************)
(* The attrition dashboard's filter-edit-reconcile workflow.               *)
(*                                                                         *)
(* Three deployment variants share one state machine:                      *)
(*   "v1"  dashboard_app.py     local Excel file, typed cells              *)
(*   "v2"  dashboard_app_v2.py  Google Sheet through google_sheets_utils   *)
(*   "v4"  dashboard_app_v4.py  Google Sheet through google_sheets_utils_v2*)
(*                                                                         *)
(* A cell of the report-date column is the record [d, t, full]: day d,     *)
(* time of day t, and full = TRUE when the cell shows the time             *)
(* ("YYYY-MM-DD HH:MM:SS") rather than the date alone ("YYYY-MM-DD").      *)
(* A cell of the probability column is [k, v]: k = "num" is the decimal    *)
(* text of v/100 ("0.42" is [num, 42], "42" is [num, 4200]); k = "pct" is  *)
(* the text of v followed by a percent sign ("42%", "42.00%"); k = "blank" *)
(* is the empty cell, k = "text" is text that is not a number.  A date     *)
(* cell with d = 0 is text that is not a date.  A row of a sheet comes     *)
(* back from the API without its trailing empty cells: such a cell is      *)
(* NoCell; over counts the cells a row has beyond the header's width.      *)
(***************************************************************************)
EXTENDS Integers, Sequences, FiniteSets

\* ------------------------------------------------------------------ bounds

MaxRows == 2
MaxEdits == 2
MaxOps == 1
ConcEdits == 1
ConcFaults == 0

Sessions == {1, 2}
Variants == {"v1", "v2", "v4"}
Sheets == {"v2", "v4"}

\* ------------------------------------------------------------- cell values

NoCell == "<absent>"
Comments == {"", "a", "b"}
EditComments == {"", "b"}

DateText(d, t, full) == [d |-> d, t |-> t, full |-> full]
ProbText(k, v) == [k |-> k, v |-> v]

Row(emp, date, prob, hr, ops, reg, extra) ==
    [emp |-> emp, date |-> date, prob |-> prob, hr |-> hr, ops |-> ops,
     reg |-> reg, extra |-> extra, over |-> 0]

\* Rows of a remote sheet: every cell is text.
SheetRows ==
    { Row("E1", DateText(1, 0, FALSE), ProbText("num", 42), "", "", "Yes", "x"),
      Row("E1", DateText(1, 0, TRUE), ProbText("pct", 42), "a", "", "No", "x"),
      Row("E1", DateText(1, 1, TRUE), ProbText("num", 4200), "a", "a", "No", "x"),
      Row("E2", DateText(2, 1, TRUE), ProbText("blank", 0), "", "a", "Yes", "x") }

\* Rows of the local workbook: the date cell is a typed datetime and the
\* probability a typed fraction.
ExcelRows ==
    { Row("E1", DateText(1, 0, TRUE), ProbText("num", 42), "", "", "Yes", "x"),
      Row("E1", DateText(1, 0, TRUE), ProbText("num", 42), "a", "", "No", "x"),
      Row("E1", DateText(1, 1, TRUE), ProbText("num", 42), "a", "a", "No", "x"),
      Row("E2", DateText(2, 1, TRUE), ProbText("num", 90), "", "a", "Yes", "x") }

\* Rows an upstream job or a hand edit may leave in the sheet: a
\* probability written as a percentage above 100, a negative one, one that
\* is not a number, a date that is not a date, a row whose trailing cells
\* (the comments and the regrettable flag) are empty, and a row with a cell
\* beyond the header.
OddSheetRows ==
    { Row("E3", DateText(1, 0, FALSE), ProbText("num", 15000), "a", "", "Yes", "x"),
      Row("E3", DateText(1, 0, FALSE), ProbText("num", -500), "a", "", "Yes", "x"),
      Row("E3", DateText(1, 0, FALSE), ProbText("text", 0), "a", "", "Yes", "x"),
      Row("E3", DateText(0, 0, FALSE), ProbText("num", 42), "a", "", "Yes", "x"),
      Row("E3", DateText(1, 0, FALSE), ProbText("num", 42), NoCell, NoCell, NoCell, "x"),
      [Row("E3", DateText(1, 0, FALSE), ProbText("num", 42), "a", "", "Yes", "x")
          EXCEPT !.over = 1] }

\* Rows of the workbook with an empty comment cell (read as NaN, 'nan' as
\* text) and with text in the date column.
OddExcelRows ==
    { Row("E3", DateText(1, 0, TRUE), ProbText("num", 42), "nan", "nan", "Yes", "x"),
      Row("E3", DateText(0, 0, FALSE), ProbText("num", 42), "a", "", "Yes", "x") }

SeqsUpTo(S, n) == UNION { [1..k -> S] : k \in 0..n }

\* ------------------------------------------------------------- conversions

\* Whether pd.to_datetime can read the cell; it raises when it cannot.
is_date(cell) == cell.d # 0

\* pd.to_datetime of a cell: the instant, whatever the text showed.
to_datetime(cell) == [d |-> cell.d, t |-> cell.t]

\* .dt.strftime('%Y-%m-%d'): the time of day is not printed.
strftime_date(ts) == DateText(ts.d, 0, FALSE)

\* .dt.strftime('%Y-%m-%d %H:%M:%S')
strftime_datetime(ts) == DateText(ts.d, ts.t, TRUE)

\* The filter's .dt.date
dt_date(ts) == ts.d

NaN == -1

\* pd.to_numeric(errors='coerce') of a cell, in hundredths: text that is not
\* a plain decimal (a percent sign, an empty cell) is NaN.
to_numeric(cell) == IF cell.k = "num" THEN cell.v ELSE NaN

\* f"{x:.2%}" of x given in hundredths; NaN becomes the empty string.
format_percent(x) == IF x = NaN THEN ProbText("blank", 0) ELSE ProbText("pct", x)

\* Removing the percent sign and reading the rest as a number, in
\* hundredths: "42%" reads 42, "0.42" reads 0.42; the empty cell and text
\* that is not a number are NaN.
strip_percent(cell) ==
    IF cell.k \in {"blank", "text"} THEN NaN
    ELSE IF cell.k = "pct" THEN 100 * cell.v ELSE cell.v

\* Probabilities of the canonical table are counted in 1/10000.
\* dashboard_app.py reads the typed fraction as it is.
prob_v1(cell) == 100 * cell.v

\* dashboard_app_v2.py: rstrip('%'), astype(float), divided by 100.
prob_v2(cell) == strip_percent(cell)

\* dashboard_app_v4.py: a number above 1 is taken for a percentage and
\* divided by 100; NaN is filled with 0.
prob_v4(cell) ==
    LET x == strip_percent(cell)
    IN  IF x = NaN THEN 0 ELSE IF x > 100 THEN x ELSE 100 * x

\* The second pass over the loaded column in dashboard_app_v4.py: again a
\* number above 1 is divided by 100 and NaN filled with 0.
second_pass(p) == IF p > 10000 THEN p \div 100 ELSE p

\* astype(str) then replace('nan', ''): the comment cell as a string. The
\* None of a cell the frame had to fill in prints as 'None'.
comment_str(c) == IF c = NoCell THEN "None" ELSE IF c = "nan" THEN "" ELSE c

\* ------------------------------------------------------------------- state

VARIABLES
    variant,    \* which dashboard is deployed
    active,     \* the browser sessions that are open
    store,      \* the backing table: [hdr, rows]; hdr = FALSE when the range is empty
    cache,      \* st.cache_data of load_data: [valid, val]
    pc,         \* per session: "run", "ready", "stopped", "clear", "update", "excel"
    filt,       \* per session: the filter widgets
    view,       \* per session: table_df as handed to the data editor
    edited,     \* per session: edited_df
    nedits,     \* per session: edits made since the page was drawn
    op,         \* per session: the handler that is running, "save" or "delete"
    cur,        \* per session: current_df, the table being written
    msg,        \* per session: st.session_state.action_message
    shown,      \* per session: what the last script run displayed
    nops,       \* per session: handler invocations so far
    nfaults,    \* transport failures so far (counted in two-session runs)
    writer,     \* the session whose write completed last, 0 before any write
    last        \* per session: record of the last handler invocation

vars == <<variant, active, store, cache, pc, filt, view, edited, nedits, op,
          cur, msg, shown, nops, nfaults, writer, last>>

\* A table that did not load is [ok |-> FALSE]: load_data's None.
NoTable == [ok |-> FALSE, rows |-> <<>>]
Loaded(rows) == [ok |-> TRUE, rows |-> rows]
NoCache == [valid |-> FALSE, val |-> NoTable]
EmptyRange == [hdr |-> FALSE, rows |-> <<>>]
Table(rows) == [hdr |-> TRUE, rows |-> rows]

\* reads, clears and updates count the requests the invocation has issued to
\* the store; notice is what the handler itself left on the page.
NoLast == [op |-> "none", res |-> "none", edited |-> <<>>, reread |-> <<>>,
           sent |-> <<>>, pre |-> EmptyRange, post |-> EmptyRange,
           reloaded |-> FALSE, reads |-> 0, clears |-> 0, updates |-> 0,
           notice |-> "none"]

\* ------------------------------------------------------------ store adapter

\* A re-read that is served from the copy the page has cached.
cached_copy(v, st) ==
    IF cache.valid /\ cache.val.ok
    THEN [i \in 1..Len(cache.val.rows) |-> cache.val.rows[i].src]
    ELSE [i \in 1..Len(st.rows) |-> st.rows[i]]

\* get_sheet_data / pd.read_excel: the rows under the header. An empty range
\* gives a DataFrame without columns, which no caller can use.
\* google_sheets_utils_v2 cuts every row to the header's width and fills a
\* short row with empty strings. google_sheets_utils hands the rows to
\* pd.DataFrame as they are: a short row is filled with None, and a row
\* longer than the header makes the constructor raise (frame_ok is FALSE).
frame_ok(v, st) == v = "v4" \/ \A i \in 1..Len(st.rows) : st.rows[i].over = 0

fill(v, c) == IF v = "v4" /\ c = NoCell THEN "" ELSE c

frame_row(v, raw) ==
    [raw EXCEPT !.hr = fill(v, raw.hr), !.ops = fill(v, raw.ops),
                !.reg = fill(v, raw.reg), !.over = 0]

get_sheet_data(v, st) == [i \in 1..Len(st.rows) |-> frame_row(v, st.rows[i])]

\* The st.warning of google_sheets_utils_v2 about rows it cut.
truncation_warning(v, st) == v = "v4" /\ \E i \in 1..Len(st.rows) : st.rows[i].over > 0

\* A clear request that reports success and removes nothing.
clear_range_kept(st) == st

\* sheet.values().clear(): the whole range is emptied.
clear_range(st) == EmptyRange

\* An update request that writes the rows without the header row.
update_range_headless(st, rows) == [hdr |-> FALSE, rows |-> rows]

\* sheet.values().update(): the header and the given rows are written from
\* the top of the range; rows of the range below them are left as they are.
update_range(st, rows) ==
    Table(rows \o
          IF Len(st.rows) > Len(rows)
          THEN SubSeq(st.rows, Len(rows) + 1, Len(st.rows))
          ELSE <<>>)

\* DataFrame.to_excel: the workbook is rewritten from the frame.
to_excel(rows) == Table(rows)

\* -------------------------------------------------------- schema normalizer

CanonRow(v, raw) ==
    [emp |-> raw.emp,
     date |-> to_datetime(raw.date),
     prob |-> IF v = "v1" THEN prob_v1(raw.prob)
              ELSE IF v = "v2" THEN prob_v2(raw.prob) ELSE prob_v4(raw.prob),
     hr |-> comment_str(raw.hr),
     ops |-> comment_str(raw.ops),
     reg |-> raw.reg,
     src |-> raw]

\* load_data: None when the store cannot be read, when the frame has no
\* columns, when a date cannot be parsed, or (dashboard_app_v2) when a
\* probability is not a number.
load_data(v, st, readOK) ==
    IF ~readOK \/ ~st.hdr \/ ~frame_ok(v, st) THEN NoTable
    ELSE IF \E i \in 1..Len(st.rows) : ~is_date(st.rows[i].date) THEN NoTable
    ELSE IF v = "v2" /\ \E i \in 1..Len(st.rows) : strip_percent(st.rows[i].prob) = NaN
    THEN NoTable
    ELSE Loaded([i \in 1..Len(st.rows) |-> CanonRow(v, get_sheet_data(v, st)[i])])

\* ------------------------------------------------------------- view builder

Filter(start, end, thr) == [start |-> start, end |-> end, thr |-> thr]

\* The widget settings a user may choose; the variants offer different
\* widgets for the employee table.
Filters(v) ==
    IF v = "v1" THEN {Filter(1, 2, 0), Filter(2, 2, 0), Filter(1, 2, 5000)}
    ELSE IF v = "v2" THEN {Filter(1, 2, 0), Filter(2, 2, 0), Filter(1, 2, 5000)}
    ELSE {Filter(1, 2, 0), Filter(2, 2, 0)}

Passes(v, f, r) ==
    /\ v \in {"v1", "v4"} => dt_date(r.date) >= f.start /\ dt_date(r.date) <= f.end
    /\ v \in {"v1", "v2"} => r.prob >= f.thr

\* The indices of the rows that pass, in table order.
RECURSIVE Kept(_, _, _, _)
Kept(v, f, rows, i) ==
    IF i > Len(rows) THEN <<>>
    ELSE (IF Passes(v, f, rows[i]) THEN <<i>> ELSE <<>>) \o Kept(v, f, rows, i + 1)

ViewRow(v, r) ==
    [emp |-> r.emp,
     date |-> IF v = "v4" THEN strftime_date(r.date) ELSE strftime_datetime(r.date),
     prob |-> r.prob,
     hr |-> r.hr, ops |-> r.ops, reg |-> r.reg,
     del |-> FALSE,
     src |-> r.src]

Orders(n) == { p \in [1..n -> 1..n] : \A i, j \in 1..n : p[i] = p[j] => i = j }

\* sort_values('Attrition Probability', ascending=False): the default sort
\* kind does not promise an order among equal keys.
SortedViews(v, f, rows) ==
    LET k == Kept(v, f, rows, 1)
        n == Len(k)
    IN  { [i \in 1..n |-> ViewRow(v, rows[k[p[i]]])] :
            p \in { q \in Orders(n) :
                      \A i \in 1..n, j \in 1..n :
                          i < j => rows[k[q[i]]].prob >= rows[k[q[j]]].prob } }

\* ----------------------------------------------------------- edit reconciler

\* The identity comparison of a store row with an edited view row.
\* dashboard_app.py and dashboard_app_v2.py compare the parsed instants;
\* dashboard_app_v4.py compares the '%Y-%m-%d' texts when saving and the parsed
\* instants when deleting.
Matches(v, o, raw, e) ==
    /\ raw.emp = e.emp
    /\ IF v = "v4" /\ o = "save"
       THEN strftime_date(to_datetime(raw.date)) = strftime_date(to_datetime(e.date))
       ELSE to_datetime(raw.date) = to_datetime(e.date)

MatchSet(v, o, raw, ed) == { j \in 1..Len(ed) : Matches(v, o, raw, ed[j]) }

Max(S) == CHOOSE x \in S : \A y \in S : y <= x

\* What the handler does to every row it writes, matched or not.
Rewritten(v, o, raw) ==
    IF v = "v1" THEN raw
    ELSE IF v = "v2"
    THEN IF o = "save"
         THEN [raw EXCEPT !.date = strftime_datetime(to_datetime(raw.date)),
                          !.prob = format_percent(to_numeric(raw.prob))]
         ELSE [raw EXCEPT !.date = strftime_datetime(to_datetime(raw.date))]
    ELSE IF o = "save"
         THEN [raw EXCEPT !.date = strftime_date(to_datetime(raw.date)),
                          !.extra = NoCell]
         ELSE [raw EXCEPT !.date = strftime_date(to_datetime(raw.date))]

\* The loop over edited_df.iterrows(): every edited row assigns to all the
\* rows it matches, so a row keeps what the last matching edited row gave it.
Assigned(v, raw, e) ==
    IF v = "v4" THEN [raw EXCEPT !.hr = e.hr, !.ops = e.ops, !.reg = e.reg]
    ELSE [raw EXCEPT !.hr = e.hr, !.ops = e.ops]

save_comments(v, rows, ed) ==
    [i \in 1..Len(rows) |->
        LET m == MatchSet(v, "save", rows[i], ed)
            w == Rewritten(v, "save", rows[i])
        IN  IF m = {} THEN w ELSE Assigned(v, w, ed[Max(m)])]

RECURSIVE Selected(_, _)
Selected(ed, j) ==
    IF j > Len(ed) THEN <<>>
    ELSE (IF ed[j].del THEN <<ed[j]>> ELSE <<>>) \o Selected(ed, j + 1)

RECURSIVE delete_rows(_, _, _, _)
delete_rows(v, rows, sel, i) ==
    IF i > Len(rows) THEN <<>>
    ELSE (IF MatchSet(v, "delete", rows[i], sel) = {}
          THEN <<Rewritten(v, "delete", rows[i])>> ELSE <<>>)
         \o delete_rows(v, rows, sel, i + 1)

\* ------------------------------------------------------------------ actions

StoreRows(v) == IF v = "v1" THEN ExcelRows ELSE SheetRows

InitSession ==
    /\ cache = NoCache
    /\ pc = [s \in Sessions |-> "run"]
    /\ filt = [s \in Sessions |-> Filter(1, 2, 0)]
    /\ view = [s \in Sessions |-> <<>>]
    /\ edited = [s \in Sessions |-> <<>>]
    /\ nedits = [s \in Sessions |-> 0]
    /\ op = [s \in Sessions |-> "none"]
    /\ cur = [s \in Sessions |-> <<>>]
    /\ msg = [s \in Sessions |-> ""]
    /\ shown = [s \in Sessions |-> ""]
    /\ nops = [s \in Sessions |-> 0]
    /\ nfaults = 0
    /\ writer = 0
    /\ last = [s \in Sessions |-> NoLast]

\* A two-row table of two employees reported on different days, the second
\* with the higher probability, so that a filter can show one row without
\* the other.
ApartRows(v) ==
    IF v = "v1"
    THEN << Row("E1", DateText(1, 0, TRUE), ProbText("num", 42), "", "", "Yes", "x"),
            Row("E2", DateText(2, 1, TRUE), ProbText("num", 90), "a", "a", "No", "x") >>
    ELSE << Row("E1", DateText(1, 0, FALSE), ProbText("num", 4200), "", "", "Yes", "x"),
            Row("E2", DateText(2, 0, FALSE), ProbText("num", 9000), "a", "a", "No", "x") >>

\* One browser session over any table the upstream job may have left.
Init ==
    /\ variant \in Variants
    /\ active = {1}
    /\ store \in { Table(r) : r \in SeqsUpTo(StoreRows(variant), MaxRows) }
                 \cup {Table(ApartRows(variant))}
    /\ InitSession

\* Two browser sessions over one two-row table: two reports of one employee
\* on one day.
ConcRows(v) ==
    IF v = "v1"
    THEN << Row("E1", DateText(1, 0, TRUE), ProbText("num", 42), "", "", "Yes", "x"),
            Row("E1", DateText(1, 1, TRUE), ProbText("num", 42), "a", "a", "No", "x") >>
    ELSE << Row("E1", DateText(1, 0, FALSE), ProbText("num", 42), "", "", "Yes", "x"),
            Row("E1", DateText(1, 1, TRUE), ProbText("num", 4200), "a", "a", "No", "x") >>

InitConc ==
    /\ variant \in Variants
    /\ active = Sessions
    /\ store \in {Table(ConcRows(variant)), Table(ApartRows(variant))}
    /\ InitSession

\* Whether the transport may fail at this request. Two-session runs count
\* the failures already injected, kept in nfaults.
CanFail == active = {1} \/ nfaults < ConcFaults
Outcomes == IF CanFail THEN BOOLEAN ELSE {TRUE}
Failed == nfaults' = (IF active = {1} THEN nfaults ELSE nfaults + 1)

\* What a failed request makes of the adapter call. google_sheets_utils
\* reports the error and returns None or False (ret); google_sheets_utils_v2
\* reports it and then calls st.error with two positional arguments, which
\* raises a TypeError out of the adapter's except block.
on_error(v, ret) == IF v = "v4" THEN "raised" ELSE IF v = "v2" THEN ret ELSE "exception"

\* How a handler ends: "ok" (the write succeeded), "exception" (the except
\* branch, with the failure as the exception), "raised" (the except branch,
\* with the adapter's TypeError as the exception), "false" (the adapter
\* returned False), "stop" (st.stop()), "nothing" (nothing was selected).
\* Reruns: whether the handler ends in st.rerun().
Reruns(o, how) ==
    IF how \in {"false", "stop", "nothing"} THEN FALSE
    ELSE ~(variant = "v4" /\ o = "save")

\* The st.error / st.warning the handler or the adapter wrote and that stays
\* on the page: "error" carries the text of the failure. A rerun redraws the
\* page without it.
Notice(o, how) ==
    IF how \in {"false", "stop"} THEN "error"
    ELSE IF how = "nothing" THEN "warning"
    ELSE IF how = "raised" /\ ~Reruns(o, how) THEN "error"
    ELSE "none"

\* The handler's last lines: what it leaves in st.session_state.action_message
\* ("error" carries str(e) of the failure, "typeerror" that of the adapter's
\* TypeError) and whether it reruns the script.
Finish(s, o, how) ==
    LET text == IF how = "exception" THEN "error"
                ELSE IF how = "raised" THEN "typeerror"
                ELSE IF o = "save" THEN "saved" ELSE "deleted"
        reruns == Reruns(o, how)
    IN  /\ pc' = [pc EXCEPT ![s] = IF reruns THEN "run" ELSE "ready"]
        /\ msg' = [msg EXCEPT ![s] = IF reruns THEN text ELSE ""]
        /\ shown' = [shown EXCEPT ![s] =
                        IF reruns \/ how = "stop" THEN ""
                        ELSE IF how \in {"false", "nothing"} THEN msg[s] ELSE text]

\* clear_cache(): only the delete handlers of the sheet variants call it.
clear_cache(o, how) ==
    IF how = "ok" /\ o = "delete" /\ variant \in Sheets THEN NoCache ELSE cache

\* One script run: load_data() through the cache, the filters, the sorted
\* table, and the message block at the end of the script. A two-session run
\* follows each session up to the end of its last handler invocation.
RunWith(s, f) ==
    /\ s \in active
    /\ pc[s] \in {"run", "ready", "stopped"}
    /\ active = {1} \/ nops[s] < MaxOps
    /\ \E readOK \in (IF cache.valid THEN {TRUE} ELSE Outcomes) :
         LET t == IF cache.valid THEN cache.val ELSE load_data(variant, store, readOK)
         IN  /\ cache' = [valid |-> TRUE, val |-> t]
             /\ IF readOK THEN nfaults' = nfaults ELSE Failed
             /\ IF ~t.ok
                THEN /\ pc' = [pc EXCEPT ![s] = "stopped"]
                     /\ view' = [view EXCEPT ![s] = <<>>]
                     /\ edited' = [edited EXCEPT ![s] = <<>>]
                     /\ shown' = [shown EXCEPT ![s] = msg[s]]
                     /\ msg' = [msg EXCEPT ![s] = ""]
                     /\ filt' = filt
                ELSE \E vw \in SortedViews(variant, f, t.rows) :
                        /\ filt' = [filt EXCEPT ![s] = f]
                        /\ view' = [view EXCEPT ![s] = vw]
                        /\ edited' = [edited EXCEPT ![s] = vw]
                        /\ IF Len(vw) = 0 /\ variant \in Sheets
                           THEN /\ pc' = [pc EXCEPT ![s] = "stopped"]
                                /\ shown' = [shown EXCEPT ![s] = ""]
                                /\ msg' = msg
                           ELSE /\ pc' = [pc EXCEPT ![s] = "ready"]
                                /\ shown' = [shown EXCEPT ![s] = msg[s]]
                                /\ msg' = [msg EXCEPT ![s] = ""]
    /\ nedits' = [nedits EXCEPT ![s] = 0]
    /\ last' = [last EXCEPT ![s].reloaded = TRUE]
    /\ UNCHANGED <<variant, active, store, op, cur, nops, writer>>

\* A rerun with the widgets as they are: st.rerun(), the auto-refresh, or
\* any interaction that is not a filter change.
Run(s) == RunWith(s, filt[s])

\* The user changes a filter widget, which reruns the script.
SetFilter(s) ==
    /\ pc[s] \in {"ready", "stopped"}
    /\ nops[s] < MaxOps
    /\ \E f \in Filters(variant) \ {filt[s]} : RunWith(s, f)

\* The cache entry is older than its ttl.
CacheExpire ==
    /\ cache.valid
    /\ cache' = NoCache
    /\ UNCHANGED <<variant, active, store, pc, filt, view, edited, nedits, op,
                   cur, msg, shown, nops, nfaults, writer, last>>

\* The user changes one cell of the data editor.
Edit(s) ==
    /\ s \in active
    /\ pc[s] = "ready"
    /\ nedits[s] < (IF active = {1} THEN MaxEdits ELSE ConcEdits)
    /\ nops[s] < MaxOps
    /\ \E i \in 1..Len(edited[s]) :
         \E e \in { [edited[s][i] EXCEPT !.hr = c] : c \in EditComments }
                 \cup { [edited[s][i] EXCEPT !.ops = "b"] }
                 \cup { [edited[s][i] EXCEPT !.reg = "No"] : x \in {v \in {variant} : v = "v4"} }
                 \cup { [edited[s][i] EXCEPT !.del = TRUE] } :
            /\ e # edited[s][i]
            /\ edited' = [edited EXCEPT ![s][i] = e]
    /\ nedits' = [nedits EXCEPT ![s] = nedits[s] + 1]
    /\ UNCHANGED <<variant, active, store, cache, pc, filt, view, op, cur, msg,
                   shown, nops, nfaults, writer, last>>

\* The record of an invocation that has issued its re-read and ended as how
\* ("writing" while the write is still to come).
Invocation(s, o, res, rows, sent, how) ==
    [op |-> o, res |-> res, edited |-> edited[s], reread |-> rows, sent |-> sent,
     pre |-> store, post |-> store, reloaded |-> FALSE,
     reads |-> 1, clears |-> 0, updates |-> 0, notice |-> Notice(o, how)]

\* A handler that goes on to write an empty table although its re-read failed.
ReadFailedWrites(s, o, readOK) ==
    /\ ~readOK \/ ~store.hdr \/ ~frame_ok(variant, store)
    /\ last' = [last EXCEPT ![s] =
                   Invocation(s, o, "read_failed", <<>>, <<>>, "writing")]
    /\ op' = [op EXCEPT ![s] = o]
    /\ cur' = [cur EXCEPT ![s] = <<>>]
    /\ pc' = [pc EXCEPT ![s] = IF variant = "v1" THEN "excel" ELSE "clear"]
    /\ UNCHANGED <<msg, shown, cache>>

\* The re-read failed, or gave a frame the handler cannot use.
ReadFailed(s, o, readOK) ==
    /\ ~readOK \/ ~store.hdr \/ ~frame_ok(variant, store)
    /\ LET how == IF readOK /\ frame_ok(variant, store) THEN "exception"
                  ELSE on_error(variant, "stop")
       IN  /\ last' = [last EXCEPT ![s] =
                          Invocation(s, o, "read_failed", <<>>, <<>>, how)]
           /\ Finish(s, o, how)
    /\ UNCHANGED <<op, cur, cache>>

\* The table is ready and the handler enters the write.
StartWrite(s, o, rows) ==
    /\ op' = [op EXCEPT ![s] = o]
    /\ cur' = [cur EXCEPT ![s] = rows]
    /\ last' = [last EXCEPT ![s] =
                   Invocation(s, o, "writing", store.rows, rows, "writing")]
    /\ pc' = [pc EXCEPT ![s] = IF variant = "v1" THEN "excel" ELSE "clear"]
    /\ UNCHANGED <<msg, shown, cache>>

\* "Save Comments": the re-read and the matching loop.
ClickSave(s) ==
    /\ s \in active
    /\ pc[s] = "ready"
    /\ nops[s] < MaxOps
    /\ nops' = [nops EXCEPT ![s] = nops[s] + 1]
    /\ \E readOK \in Outcomes :
         /\ IF readOK THEN nfaults' = nfaults ELSE Failed
         /\ \/ ReadFailed(s, "save", readOK)
            \/ /\ readOK /\ store.hdr /\ frame_ok(variant, store)
               /\ StartWrite(s, "save",
                             save_comments(variant, get_sheet_data(variant, store), edited[s]))
    /\ UNCHANGED <<variant, active, store, filt, view, edited, nedits, writer>>

\* "Delete Selected": the re-read, the selection and the keep mask.
ClickDelete(s) ==
    /\ s \in active
    /\ pc[s] = "ready"
    /\ nops[s] < MaxOps
    /\ nops' = [nops EXCEPT ![s] = nops[s] + 1]
    /\ \E readOK \in Outcomes :
         LET sel == Selected(edited[s], 1)
         IN  /\ IF readOK THEN nfaults' = nfaults ELSE Failed
             /\ \/ ReadFailed(s, "delete", readOK)
                \/ /\ readOK /\ store.hdr /\ frame_ok(variant, store)
                   /\ sel = <<>> /\ variant \in Sheets
                   /\ last' = [last EXCEPT ![s] =
                                  Invocation(s, "delete", "nothing", store.rows, <<>>,
                                             "nothing")]
                   /\ Finish(s, "delete", "nothing")
                   /\ UNCHANGED <<op, cur, cache>>
                \/ /\ readOK /\ store.hdr /\ frame_ok(variant, store)
                   /\ sel # <<>> \/ variant = "v1"
                   /\ StartWrite(s, "delete",
                                 delete_rows(variant, get_sheet_data(variant, store), sel, 1))
    /\ UNCHANGED <<variant, active, store, filt, view, edited, nedits, writer>>

\* update_sheet_data, first request: the range is cleared, or the request
\* fails and the adapter returns False.
Clear(s) ==
    /\ s \in active
    /\ pc[s] = "clear"
    /\ \/ /\ store' = clear_range(store)
          /\ pc' = [pc EXCEPT ![s] = "update"]
          /\ last' = [last EXCEPT ![s].clears = @ + 1]
          /\ UNCHANGED <<msg, shown, nfaults>>
       \/ /\ CanFail /\ Failed
          /\ store' = store
          /\ LET how == on_error(variant, "false")
             IN  /\ last' = [last EXCEPT ![s].res = "clear_failed", ![s].post = store,
                                         ![s].clears = @ + 1,
                                         ![s].notice = Notice(op[s], how)]
                 /\ Finish(s, op[s], how)
    /\ UNCHANGED <<variant, active, cache, filt, view, edited, nedits, op, cur, nops,
                   writer>>

\* update_sheet_data, second request, and the handler's branch on its result.
Update(s) ==
    /\ s \in active
    /\ pc[s] = "update"
    /\ \/ /\ store' = update_range(store, cur[s])
          /\ last' = [last EXCEPT ![s].res = "ok", ![s].post = store',
                                  ![s].updates = @ + 1]
          /\ cache' = clear_cache(op[s], "ok")
          /\ nfaults' = nfaults
          /\ writer' = s
          /\ Finish(s, op[s], "ok")
       \/ /\ CanFail /\ Failed
          /\ store' = store
          /\ cache' = cache
          /\ writer' = writer
          /\ LET how == on_error(variant, "false")
             IN  /\ last' = [last EXCEPT ![s].res = "update_failed", ![s].post = store,
                                         ![s].updates = @ + 1,
                                         ![s].notice = Notice(op[s], how)]
                 /\ Finish(s, op[s], how)
    /\ UNCHANGED <<variant, active, filt, view, edited, nedits, op, cur, nops>>

\* original_df.to_excel(...): the workbook is rewritten; a failure raises
\* into the handler's except branch and leaves the old file or a broken one.
ToExcel(s) ==
    /\ s \in active
    /\ pc[s] = "excel"
    /\ \/ /\ store' = to_excel(cur[s])
          /\ last' = [last EXCEPT ![s].res = "ok", ![s].post = store',
                                  ![s].updates = @ + 1]
          /\ nfaults' = nfaults
          /\ writer' = s
          /\ Finish(s, op[s], "ok")
       \/ /\ CanFail /\ Failed
          /\ store' \in {store, EmptyRange}
          /\ last' = [last EXCEPT ![s].res = "update_failed", ![s].post = store',
                                  ![s].updates = @ + 1]
          /\ writer' = writer
          /\ Finish(s, op[s], "exception")
    /\ UNCHANGED <<variant, active, cache, filt, view, edited, nedits, op, cur, nops>>

Next ==
    \/ \E s \in Sessions : Run(s)
    \/ \E s \in Sessions : SetFilter(s)
    \/ CacheExpire
    \/ \E s \in Sessions : Edit(s)
    \/ \E s \in Sessions : ClickSave(s)
    \/ \E s \in Sessions : ClickDelete(s)
    \/ \E s \in Sessions : Clear(s)
    \/ \E s \in Sessions : Update(s)
    \/ \E s \in Sessions : ToExcel(s)

Spec == Init /\ [][Next]_vars

SpecConc == InitConc /\ [][Next]_vars

\* The page drawn over any table the sheet or the workbook may hold, well
\* formed or not: the script runs, the filters and the cache, no handler.
RawRows(v) ==
    IF v = "v1" THEN ExcelRows \cup OddExcelRows ELSE SheetRows \cup OddSheetRows

InitLoad ==
    /\ variant \in Variants
    /\ active = {1}
    /\ store \in { Table(r) : r \in SeqsUpTo(RawRows(variant), MaxRows) }
    /\ InitSession

NextLoad ==
    \/ \E s \in Sessions : Run(s)
    \/ \E s \in Sessions : SetFilter(s)
    \/ CacheExpire

SpecLoad == InitLoad /\ [][NextLoad]_vars

\* ------------------------------------------------------------------- claims

\* The composite identity of a record: Employee ID and the instant of the
\* report date, time of day included.
Ident(raw) == <<raw.emp, to_datetime(raw.date)>>

UniqueIds(rows) ==
    \A i, j \in 1..Len(rows) : Ident(rows[i]) = Ident(rows[j]) => i = j

\* The number a probability cell stands for, in hundredths.
ProbValue(cell) == IF cell.k = "blank" THEN NaN ELSE cell.v

\* Two rows carry the same values outside the comment columns.
SameKept(a, b) ==
    /\ a.emp = b.emp
    /\ to_datetime(a.date) = to_datetime(b.date)
    /\ ProbValue(a.prob) = ProbValue(b.prob)
    /\ a.extra = b.extra

SameComments(a, b) == a.hr = b.hr /\ a.ops = b.ops /\ a.reg = b.reg

SameValue(a, b) == SameKept(a, b) /\ SameComments(a, b)

SaveOk(s) == last[s].op = "save" /\ last[s].res = "ok"
DeleteOk(s) == last[s].op = "delete" /\ last[s].res = "ok"

\* C1: after a successful save-comments, every re-read row whose identity is
\* that of an edited view row holds that edited row's HR and OPS comment (and
\* Regrettable in dashboard_app_v4). Stated for tables whose identities are
\* unique, as the data model promises.
C1_SavedCommentsReachEveryMatch ==
    \A s \in Sessions :
        (SaveOk(s) /\ UniqueIds(last[s].reread)) =>
            \A i \in 1..Len(last[s].reread) : \A j \in 1..Len(last[s].edited) :
                Ident(last[s].reread[i]) = Ident(last[s].edited[j].src) =>
                    /\ i <= Len(last[s].post.rows)
                    /\ last[s].post.rows[i].hr = last[s].edited[j].hr
                    /\ last[s].post.rows[i].ops = last[s].edited[j].ops
                    /\ variant = "v4" =>
                           last[s].post.rows[i].reg = last[s].edited[j].reg

\* C2: in save-comments and delete, every edited (or selected) view row whose
\* source row is still in the re-read table unchanged is matched to that row.
C2_MatchFindsUnchangedSource ==
    \A s \in Sessions :
        last[s].res \in {"writing", "ok", "clear_failed", "update_failed"} =>
            \A j \in 1..Len(last[s].edited) :
                (last[s].op = "save" \/ last[s].edited[j].del) =>
                    \A i \in 1..Len(last[s].reread) :
                        last[s].reread[i] = last[s].edited[j].src =>
                            Matches(variant, last[s].op, last[s].reread[i],
                                    last[s].edited[j])

\* C3: save-comments writes every row back with the values that were
\* re-read, except the comment cells of the rows an edited row matches.
C3_SaveKeepsEverythingElse ==
    \A s \in Sessions :
        (SaveOk(s) /\ UniqueIds(last[s].reread)) =>
            /\ Len(last[s].post.rows) = Len(last[s].reread)
            /\ \A i \in 1..Len(last[s].reread) :
                  /\ SameKept(last[s].post.rows[i], last[s].reread[i])
                  /\ variant # "v4" => last[s].post.rows[i].reg = last[s].reread[i].reg
                  /\ (\A j \in 1..Len(last[s].edited) :
                          Ident(last[s].reread[i]) # Ident(last[s].edited[j].src))
                        => SameComments(last[s].post.rows[i], last[s].reread[i])

\* The rows whose identity is none of ids, in their order.
RECURSIVE Without(_, _, _)
Without(rows, ids, i) ==
    IF i > Len(rows) THEN <<>>
    ELSE (IF Ident(rows[i]) \in ids THEN <<>> ELSE <<rows[i]>>)
         \o Without(rows, ids, i + 1)

SelectedIds(ed) == { Ident(ed[j].src) : j \in { k \in 1..Len(ed) : ed[k].del } }

\* C4: after a successful delete with a non-empty selection the store holds
\* exactly the re-read rows whose identity no selected row has, in order.
C4_DeleteRemovesExactlySelected ==
    \A s \in Sessions :
        (DeleteOk(s) /\ SelectedIds(last[s].edited) # {}) =>
            LET keep == Without(last[s].reread, SelectedIds(last[s].edited), 1)
            IN  /\ Len(last[s].post.rows) = Len(keep)
                /\ \A i \in 1..Len(keep) : SameValue(last[s].post.rows[i], keep[i])

Unedited(ed) ==
    \A j \in 1..Len(ed) : ed[j] = ViewRow(variant, CanonRow(variant, ed[j].src))

\* C5: save-comments on an unedited view leaves the table content-equivalent,
\* up to row order, to what it was.
C5_SaveOfUneditedViewIsNoOp ==
    \A s \in Sessions :
        (SaveOk(s) /\ Unedited(last[s].edited) /\ UniqueIds(last[s].reread)) =>
            /\ Len(last[s].post.rows) = Len(last[s].pre.rows)
            /\ \E p \in Orders(Len(last[s].pre.rows)) :
                  \A i \in 1..Len(last[s].pre.rows) :
                      SameValue(last[s].post.rows[i], last[s].pre.rows[p[i]])

WriteFailed(s) == last[s].res \in {"clear_failed", "update_failed"}

\* C6, as claimed: when the write step of save-comments or delete fails, the
\* store retains its pre-operation contents.
C6_FailedWriteKeepsStore ==
    \A s \in Sessions : WriteFailed(s) => last[s].post = last[s].pre

\* C6, amended: a failed write leaves the pre-operation table when the clear
\* request failed, and the empty range when the clear went through and the
\* write request failed; a failed rewrite of the local workbook leaves the old
\* file or an unreadable one. No part of the new table is ever committed.
C6_FailedWriteKeepsOrEmpties ==
    \A s \in Sessions :
        /\ last[s].res = "clear_failed" => last[s].post = last[s].pre
        /\ last[s].res = "update_failed" =>
               IF variant \in Sheets THEN last[s].post = EmptyRange
               ELSE last[s].post \in {last[s].pre, EmptyRange}

C6_Witness ==
    \E s \in Sessions :
        /\ variant \in Sheets
        /\ last[s].res = "update_failed"
        /\ last[s].pre.rows # <<>>
        /\ last[s].sent # <<>>
        /\ store = EmptyRange

\* C7: when both sessions re-read before either writes, then once both writes
\* are complete the store holds the table of the session that wrote last, and
\* both sessions were given the success notice.
C7_LastWriterWins ==
    (\A s \in Sessions :
        /\ last[s].res = "ok"
        /\ last[s].pre = Table(ConcRows(variant)))
    => /\ store = Table(last[writer].sent)
       /\ \A s \in Sessions :
             IF last[s].op = "save" THEN "saved" \in {msg[s], shown[s]}
             ELSE "deleted" \in {msg[s], shown[s]}

\* The first script run after a handler invocation that succeeded.
FirstLoadAfter(s, o) ==
    /\ last[s].op = o /\ last[s].res = "ok"
    /\ ~last[s].reloaded /\ last'[s].reloaded

\* C8: the first load after a successful save-comments does not return a
\* cached copy that differs from the store's contents.
C8_LoadAfterSaveIsFresh ==
    [][\A s \in Sessions :
          (FirstLoadAfter(s, "save") /\ cache.valid) =>
              cache'.val = load_data(variant, store, TRUE)]_vars

\* C9: the first load after a successful delete does not return a cached copy
\* that differs from the store's contents.
C9_LoadAfterDeleteIsFresh ==
    [][\A s \in Sessions :
          (FirstLoadAfter(s, "delete") /\ cache.valid) =>
              cache'.val = load_data(variant, store, TRUE)]_vars

\* An edited row whose identity is not in the re-read table.
Missed(s, j) ==
    \A i \in 1..Len(last[s].reread) :
        Ident(last[s].reread[i]) # Ident(last[s].edited[j].src)

\* C10: when an edited row's identity is no longer in the re-read table,
\* save-comments still completes and shows the success notice, and every
\* row it writes carries the comments that were re-read or those of an edited
\* row of the same identity: nothing is changed on account of the missing row.
C10_MissIsSilentNoOp ==
    \A s \in Sessions :
        (SaveOk(s) /\ UniqueIds(last[s].reread)
           /\ \E j \in 1..Len(last[s].edited) : Missed(s, j)) =>
            /\ "saved" \in {msg[s], shown[s]} \/ last[s].reloaded
            /\ Len(last[s].sent) = Len(last[s].reread)
            /\ \A i \in 1..Len(last[s].reread) :
                  \/ /\ last[s].sent[i].hr = last[s].reread[i].hr
                     /\ last[s].sent[i].ops = last[s].reread[i].ops
                  \/ \E j \in 1..Len(last[s].edited) :
                        /\ Ident(last[s].reread[i]) = Ident(last[s].edited[j].src)
                        /\ last[s].sent[i].hr = last[s].edited[j].hr
                        /\ last[s].sent[i].ops = last[s].edited[j].ops

\* A delete invocation over a table on the page in which no row was checked.
EmptyDelete(s) ==
    /\ last[s].op = "delete"
    /\ last[s].edited # <<>>
    /\ Selected(last[s].edited, 1) = <<>>

\* C11: a delete with no row checked ends with the "nothing selected" notice
\* and issues no request to the store, neither a read nor a write.
C11_EmptyDeleteDoesNoIO ==
    \A s \in Sessions :
        (variant \in Sheets /\ EmptyDelete(s)) =>
            /\ last[s].notice = "warning"
            /\ last[s].reads = 0
            /\ last[s].clears = 0
            /\ last[s].updates = 0

\* C12: a delete with no row checked writes nothing, leaves the store as it
\* was, and gives the informational notice, not a success or error message.
\* Stated for invocations whose re-read went through.
C12_EmptyDeleteWritesNothing ==
    \A s \in Sessions :
        (EmptyDelete(s) /\ last[s].res # "read_failed"
           /\ pc[s] \notin {"clear", "update", "excel"}) =>
            /\ last[s].clears = 0
            /\ last[s].updates = 0
            /\ last[s].post = last[s].pre
            /\ last[s].notice = "warning"
            /\ last[s].reloaded \/
                   {msg[s], shown[s]} \cap {"deleted", "error", "typeerror"} = {}

\* The source rows of the view rows checked for deletion.
SelectedRows(s) == { last[s].edited[j].src :
                       j \in { k \in 1..Len(last[s].edited) : last[s].edited[k].del } }

\* Session b deleted right after session a, with the same rows checked and no
\* write in between.
DeletedTwice(a, b) ==
    /\ a # b
    /\ DeleteOk(a) /\ DeleteOk(b)
    /\ SelectedRows(a) # {}
    /\ SelectedRows(a) = SelectedRows(b)
    /\ last[b].pre = last[a].post
    /\ writer = b

\* C13: deleting twice with the same selection and no other writer in
\* between leaves the store after the second call as it was after the first.
C13_SecondDeleteIsNoOp ==
    \A a, b \in Sessions :
        DeletedTwice(a, b) => last[b].post = last[a].post

\* Where an invocation stands: its requests so far and its position.
LinearState(s) ==
    /\ last[s].reads <= 1 /\ last[s].clears <= 1 /\ last[s].updates <= 1
    /\ (pc[s] \in {"clear", "update", "excel"} \/ last[s].clears + last[s].updates > 0)
         => last[s].reads = 1 /\ last[s].res # "read_failed"
    /\ pc[s] \in {"clear", "excel"} => last[s].clears = 0 /\ last[s].updates = 0
    /\ pc[s] = "update" => last[s].clears = 1 /\ last[s].updates = 0
    /\ last[s].res = "read_failed"
         => last[s].clears = 0 /\ last[s].updates = 0 /\ last[s].post = last[s].pre
    /\ last[s].updates = 1 /\ variant \in Sheets => last[s].clears = 1

\* The positions follow one another in one direction only.
LinearStep(s) ==
    /\ pc[s] = "clear" => pc'[s] \in {"clear", "update", "ready", "run"}
    /\ pc[s] \in {"update", "excel"} => pc'[s] \in {pc[s], "ready", "run"}
    /\ pc'[s] \in {"clear", "excel"} => pc[s] \in {pc'[s], "ready"}
    /\ pc'[s] = "update" => pc[s] \in {"update", "clear"}
    /\ (last'[s] # last[s] /\ last'[s].res = "read_failed") => store' = store

\* C14: an invocation of save-comments or delete issues one re-read, writes
\* only after that re-read succeeded and the table is computed, attempts the
\* write once and never again; a failed re-read issues no write and leaves
\* the store unchanged.
C14_InvocationIsLinear ==
    /\ [](\A s \in Sessions : LinearState(s))
    /\ [][\A s \in Sessions : LinearStep(s)]_vars

C14_Witness ==
    \E s \in Sessions :
        /\ variant \in Sheets
        /\ last[s].res = "ok"
        /\ last[s].reads = 1 /\ last[s].clears = 1 /\ last[s].updates = 1
        /\ last[s].post # last[s].pre
        /\ pc[s] = "run"

\* The invocation ended on a failed store request.
StoreFailed(s) ==
    \/ last[s].res \in {"clear_failed", "update_failed"}
    \/ last[s].res = "read_failed" /\ last[s].pre.hdr

\* C15: every failure of a store read or write in load, save-comments or
\* delete ends in a failure notification that carries the error text: after a
\* failed handler the text is on the page or waiting in action_message, and a
\* failed load leaves the page without a table.
C15_FailuresAreReported ==
    /\ \A s \in Sessions :
          (StoreFailed(s) /\ ~last[s].reloaded) =>
              \/ last[s].notice = "error"
              \/ "error" \in {msg[s], shown[s]}
    /\ \A s \in active :
          (active = {s} /\ cache.valid /\ ~cache.val.ok) =>
              pc[s] = "stopped" /\ view[s] = <<>>

Success == {"saved", "deleted"}

\* The step in which the write of session s succeeds.
SuccessStep(s) == last[s].res = "writing" /\ last'[s].res = "ok"

\* C16: a successful save-comments or delete sets the success notification
\* and triggers a reload; the notification is cleared in the render that
\* shows it, and only a successful operation sets one.
C16_SuccessNoticeOnceAndReload ==
    [][\A s \in Sessions :
          /\ SuccessStep(s) =>
                /\ pc'[s] = "run"
                /\ msg'[s] = (IF last[s].op = "save" THEN "saved" ELSE "deleted")
          /\ (shown'[s] \in Success /\ shown'[s] # shown[s]) =>
                /\ msg'[s] = ""
                /\ msg[s] = shown'[s] \/ SuccessStep(s)
          /\ (msg'[s] \in Success /\ msg'[s] # msg[s]) => SuccessStep(s)
      ]_vars

\* C17: a save to the remote sheet empties the whole range before it writes,
\* then writes the header row and under it all rows of the given table; a
\* save that stops between the two requests leaves the range empty.
C17_ClearThenWriteHeaderFirst ==
    /\ [](\A s \in Sessions :
             (variant \in Sheets /\ pc[s] = "update") => store = EmptyRange)
    /\ [][(variant \in Sheets /\ store' # store) =>
             \E s \in Sessions :
                \/ /\ pc[s] = "clear" /\ pc'[s] = "update"
                   /\ store' = EmptyRange
                \/ /\ pc[s] = "update" /\ last[s].clears = 1
                   /\ store'.hdr
                   /\ store'.rows = cur[s]
          ]_vars

C17_Witness ==
    \E s \in Sessions :
        /\ variant \in Sheets
        /\ pc[s] = "update"
        /\ last[s].pre.rows # <<>>
        /\ cur[s] # <<>>
        /\ store = EmptyRange

Idents(rows) == { Ident(rows[i]) : i \in 1..Len(rows) }

\* C18: after save-comments and delete operations every row of the store has
\* the identity of a row that was in the store before them.
C18_NoRecordCreated ==
    \A s \in Sessions :
        (active = {s} /\ last[s].op # "none") =>
            Idents(store.rows) \subseteq Idents(last[s].pre.rows)

\* C19: identities that are unique in the store, time of day included, are
\* still unique after save-comments and delete operations.
C19_IdentitiesStayUnique ==
    \A s \in Sessions :
        (active = {s} /\ last[s].op # "none" /\ UniqueIds(last[s].pre.rows)) =>
            UniqueIds(store.rows)

\* The probability a cell stands for under the stated rule, in 1/10000: the
\* percent sign is dropped, a number above 1 is divided by 100, and a cell
\* with no number in it counts as 0.
Normalized(cell) ==
    IF cell.k = "blank" THEN 0
    ELSE LET x == IF cell.k = "pct" THEN 100 * cell.v ELSE cell.v
         IN  IF x > 100 THEN x ELSE 100 * x

\* C20: loading a sheet turns "42", "42%" and "0.42" into 0.42 and an empty
\* probability into 0.0, and does not fail on any of them.
C20_ProbabilityNormalized ==
    variant \in Sheets =>
        /\ (cache.valid /\ store.hdr /\ cache.val = load_data(variant, store, TRUE))
              => cache.val.ok
        /\ \A s \in Sessions : \A i \in 1..Len(view[s]) :
              view[s][i].prob = Normalized(view[s][i].src.prob)

\* C21: after normalization every row's probability is a fraction in [0,1]
\* (0..10000 in the table's unit), whatever the cell held, values above 100
\* and negative values included: in the table load_data returned, in the
\* view built from it, and (dashboard_app_v4) after the second pass.
InUnitRange(p) == p >= 0 /\ p <= 10000

C21_ProbabilityInUnitRange ==
    /\ (cache.valid /\ cache.val.ok) =>
          \A i \in 1..Len(cache.val.rows) :
              /\ InUnitRange(cache.val.rows[i].prob)
              /\ variant = "v4" => InUnitRange(second_pass(cache.val.rows[i].prob))
    /\ \A s \in active : \A i \in 1..Len(view[s]) : InUnitRange(view[s][i].prob)

\* C22: a single bad cell never aborts the load of a sheet. Over a store that
\* can be read and whose rows are as wide as the header, load_data returns the
\* table with one row per stored row, and a probability that cannot be
\* parsed is 0 in it.
WellShaped(st) ==
    /\ st.hdr
    /\ \A i \in 1..Len(st.rows) :
          /\ st.rows[i].over = 0
          /\ NoCell \notin {st.rows[i].hr, st.rows[i].ops, st.rows[i].reg}

C22_BadCellDoesNotAbortLoad ==
    (/\ variant \in Sheets
     /\ cache.valid /\ WellShaped(store)
     /\ cache.val = load_data(variant, store, TRUE)) =>
        /\ cache.val.ok
        /\ Len(cache.val.rows) = Len(store.rows)
        /\ \A i \in 1..Len(cache.val.rows) :
              strip_percent(store.rows[i].prob) = NaN => cache.val.rows[i].prob = 0

\* C23: in the table load_data returned, the HR comment and the OPS comment
\* of every row are strings and never a placeholder for a missing value
\* (null, 'nan', 'None'): a missing comment is the empty string.
Placeholders == {NoCell, "nan", "None"}

C23_CommentsNeverPlaceholder ==
    (cache.valid /\ cache.val.ok) =>
        \A i \in 1..Len(cache.val.rows) :
            /\ cache.val.rows[i].hr \notin Placeholders
            /\ cache.val.rows[i].ops \notin Placeholders

\* C24: a row is in the employee table view if and only if it satisfies
\* every active filter: its report date lies within [start, end], compared
\* on the date alone, and its probability is at least the threshold
\* (dashboard_app_v4 has no threshold widget).
AllFilters(f, r) ==
    /\ dt_date(r.date) >= f.start
    /\ dt_date(r.date) <= f.end
    /\ variant # "v4" => r.prob >= f.thr

Expected(s) == { i \in 1..Len(cache.val.rows) : AllFilters(filt[s], cache.val.rows[i]) }

C24_ViewIsExactlyTheFilteredRows ==
    \A s \in active :
        (active = {s} /\ cache.valid /\ cache.val.ok /\ pc[s] \in {"ready", "stopped"}) =>
            /\ Len(view[s]) = Cardinality(Expected(s))
            /\ \A j \in 1..Len(view[s]) :
                  \E i \in Expected(s) : view[s][j].src = cache.val.rows[i].src
            /\ \A i \in Expected(s) :
                  \E j \in 1..Len(view[s]) : view[s][j].src = cache.val.rows[i].src

\* C25: the view is ordered by probability descending, and two rows of equal
\* probability keep the relative order they had in the table before the sort.
Descending(vw) == \A i, j \in 1..Len(vw) : i < j => vw[i].prob >= vw[j].prob

InTableOrder(rows, x, y) ==
    \E a, b \in 1..Len(rows) : a < b /\ rows[a].src = x /\ rows[b].src = y

C25_SortIsDescendingAndStable ==
    \A s \in active :
        (active = {s} /\ cache.valid /\ cache.val.ok /\ pc[s] \in {"ready", "stopped"}) =>
            /\ Descending(view[s])
            /\ \A i, j \in 1..Len(view[s]) :
                  (i < j /\ view[s][i].prob = view[s][j].prob
                         /\ view[s][i].src # view[s][j].src) =>
                      InTableOrder(cache.val.rows, view[s][i].src, view[s][j].src)

\* C26: the frame the store adapter returns has, in every row, exactly as
\* many cells as the header: a row shorter than the header is filled with
\* empty strings, a row longer than the header is cut to the header's width
\* with a warning, and neither makes the load fail.
Rectangular(rows) ==
    \A i \in 1..Len(rows) :
        /\ rows[i].over = 0
        /\ NoCell \notin {rows[i].hr, rows[i].ops, rows[i].reg}

C26_RaggedRowsAreSquared ==
    (/\ variant \in Sheets
     /\ cache.valid /\ store.hdr
     /\ cache.val = load_data(variant, store, TRUE)) =>
        /\ frame_ok(variant, store)
        /\ Rectangular(get_sheet_data(variant, store))
        /\ (\E i \in 1..Len(store.rows) : store.rows[i].over > 0) =>
              truncation_warning(variant, store)

\* C27: a change another session made to the store before this session's
\* save-comments re-read, on a row that this session's edited view does not
\* show, is still in the store when this session's save has completed: the
\* save writes one row for every row it re-read, and the rows its view does
\* not show keep the employee, the comments and the flag they had at the
\* re-read. A row is shown when the view has a row with its Employee ID and
\* its date as the table displays it.
Displayed(raw) == ViewRow(variant, CanonRow(variant, raw)).date

NotInView(s, raw) ==
    ~ \E j \in 1..Len(last[s].edited) :
          /\ last[s].edited[j].emp = raw.emp
          /\ last[s].edited[j].date = Displayed(raw)

SavedAfter(a, b) ==
    /\ a # b
    /\ last[a].res = "ok" /\ last[a].post # last[a].pre
    /\ SaveOk(b) /\ last[b].pre = last[a].post

C27_SaveKeepsOthersChanges ==
    \A a, b \in Sessions :
        SavedAfter(a, b) =>
            /\ Len(last[b].post.rows) = Len(last[b].pre.rows)
            /\ \A i \in 1..Len(last[b].pre.rows) :
                  NotInView(b, last[b].pre.rows[i]) =>
                      /\ i <= Len(last[b].post.rows)
                      /\ last[b].post.rows[i].emp = last[b].pre.rows[i].emp
                      /\ SameComments(last[b].post.rows[i], last[b].pre.rows[i])

C27_Witness ==
    \E a, b \in Sessions :
        /\ SavedAfter(a, b) /\ SaveOk(a)
        /\ \E i \in 1..Len(last[b].pre.rows) :
              /\ NotInView(b, last[b].pre.rows[i])
              /\ i <= Len(last[a].pre.rows)
              /\ ~SameComments(last[a].pre.rows[i], last[b].pre.rows[i])
              /\ SameComments(last[b].post.rows[i], last[b].pre.rows[i])

\* C28: a save-comments never changes the stored HR or OPS comment of a row
\* whose comments the session's user did not edit, whatever another session
\* did to that row after this session's view was loaded: every row of the
\* re-read that the view shows only with the comments it was loaded with has
\* after the save the comments it had at the re-read. Stated for tables in
\* which no two rows are displayed with the same Employee ID and date.
Shows(s, j, raw) ==
    /\ last[s].edited[j].emp = raw.emp
    /\ last[s].edited[j].date = Displayed(raw)

CommentsAsLoaded(e) ==
    LET v == ViewRow(variant, CanonRow(variant, e.src))
    IN  e.hr = v.hr /\ e.ops = v.ops

NotEditedBy(s, raw) ==
    \A j \in 1..Len(last[s].edited) :
        Shows(s, j, raw) => CommentsAsLoaded(last[s].edited[j])

DistinctAsDisplayed(rows) ==
    \A i, j \in 1..Len(rows) :
        (rows[i].emp = rows[j].emp /\ Displayed(rows[i]) = Displayed(rows[j])) => i = j

C28_SaveTouchesOnlyEditedComments ==
    \A s \in Sessions :
        (SaveOk(s) /\ DistinctAsDisplayed(last[s].pre.rows)) =>
            /\ Len(last[s].post.rows) = Len(last[s].pre.rows)
            /\ \A i \in 1..Len(last[s].pre.rows) :
                  (i <= Len(last[s].post.rows) /\ NotEditedBy(s, last[s].pre.rows[i])) =>
                      /\ last[s].post.rows[i].hr = last[s].pre.rows[i].hr
                      /\ last[s].post.rows[i].ops = last[s].pre.rows[i].ops

\* C29: a record one session deleted from the sheet is not in the sheet
\* again after another session's save-comments or delete has completed,
\* however the re-reads and writes of the two sessions interleave. A record
\* is told by its Employee ID and the day of its report; it was deleted when
\* the deleting write left no row with that key.
Key(raw) == <<raw.emp, dt_date(to_datetime(raw.date))>>

Keys(rows) == { Key(rows[i]) : i \in 1..Len(rows) }

DeletedBy(a) == Keys(last[a].pre.rows) \ Keys(last[a].post.rows)

C29_DeletedRecordStaysDeleted ==
    \A a, b \in Sessions :
        (/\ variant \in Sheets
         /\ a # b /\ DeleteOk(a) /\ last[b].res = "ok" /\ writer = b) =>
            DeletedBy(a) \cap Keys(store.rows) = {}

\* C30: every notification a save-comments or delete has set is displayed by
\* the first script run that follows the operation, also when the reloaded
\* view has no row that passes the filters. Stated for a store that still
\* holds rows and a view filtered by date alone.
FirstRender(s) ==
    /\ pc[s] = "run" /\ pc'[s] \in {"ready", "stopped"}
    /\ msg[s] # "" /\ store.rows # <<>> /\ filt[s].thr = 0

C30_NoticeShownInFirstRender ==
    [][\A s \in Sessions : FirstRender(s) => shown'[s] = msg[s]]_vars

====
